---- MODULE Spec2Model ----
(***************************************************************************)
(* Conservative CCD controller (src/src/ccd/ccd.cpp, ccd_strategy and its  *)
(* wrappers) and the parallel TOI reducer (src/src/ipc.cpp,                *)
(* compute_collision_free_stepsize), IPC_TOOLKIT_WITH_CORRECT_CCD build    *)
(* with IPC_EARLIEST_TOI_USE_MUTEX defined (ipc.cpp:5).                    *)
(*                                                                         *)
(* Numbers.  A double is modelled as a fixed-point number: a time is an    *)
(* integer count of time units with ONE units = 1.0 and SMALL_TOI units =  *)
(* 1e-6; a distance is an integer count of distance units.  One unit is    *)
(* the spacing of the format (as for doubles in the subnormal range), so a *)
(* product with a fraction is rounded to the nearest unit, ties to even,   *)
(* as IEEE-754 multiplication rounds.  Infinity is a value above ONE.      *)
(***************************************************************************)
EXTENDS Integers, Sequences, FiniteSets

\* 1.0 in time units (double earliest_toi = 1).
ONE == 10000000

\* static constexpr double SMALL_TOI = 1e-6, in time units.
SMALL_TOI == 10

\* std::numeric_limits<double>::infinity()
Infinity == ONE + ONE

\* Largest number of candidates in one call of the reducer.
MaxCand == 2

\* x * (num/den) rounded to the nearest unit, ties to even.
MulFrac(x, num, den) ==
    LET n == x * num
        q == n \div den
        rem == n % den
    IN  IF 2 * rem < den THEN q
        ELSE IF 2 * rem > den THEN q + 1
        ELSE IF q % 2 = 0 THEN q ELSE q + 1

(***************************************************************************)
(* Inputs.                                                                 *)
(***************************************************************************)

\* conservative_rescaling, a fraction in (0,1).
RSet == { [num |-> 1, den |-> 5], [num |-> 1, den |-> 2], [num |-> 4, den |-> 5] }

\* Sample times: 0, below SMALL_TOI, SMALL_TOI, inside (0,1), 1.
TimeSamples == {0, 1, 5, SMALL_TOI, ONE \div 2, (6 * ONE) \div 10, ONE}

\* Sample start-of-step distances: touching, one unit, ten units.
DistSamples == {0, 1, 10}

(***************************************************************************)
(* A pair of primitive trajectories, as the root-finder sees it:           *)
(*   d0      the start-of-step distance;                                   *)
(*   tMargin the earliest time in [0,1] the root-finder reports for a      *)
(*           positive minimum separation below d0 (Infinity: none; 0 is    *)
(*           possible with d0 > 0, the root-finder being conservative);    *)
(*   tZero   the earliest time in [0,1] at which the distance is zero      *)
(*           (Infinity: never);                                            *)
(*   miss    what a query that finds no impact leaves in toi: "keep" the   *)
(*           caller's value, or "inf".                                     *)
(***************************************************************************)
Pairs ==
    { p \in [d0 : DistSamples, tMargin : TimeSamples \cup {Infinity},
             tZero : TimeSamples \cup {Infinity}, miss : {"keep", "inf"}] :
        /\ (p.d0 = 0) => (p.tMargin = 0 /\ p.tZero = 0 /\ p.miss = "inf")
        /\ (p.d0 > 0) => /\ p.tZero > 0
                         /\ \/ p.tMargin < p.tZero
                            \/ (p.tMargin = Infinity /\ p.tZero = Infinity) }

\* The root-finder's closure `ccd` of a wrapper: the earliest root in
\* [0, tmax] for the separation min_distance, never 0 under no_zero_toi.
Oracle(p, tmax, min_distance, no_zero_toi, toi) ==
    LET root0 == IF min_distance >= p.d0 THEN 0
                 ELSE IF min_distance > 0 THEN p.tMargin
                 ELSE p.tZero
        root == IF no_zero_toi /\ root0 = 0 THEN 1 ELSE root0
    IN  IF root <= tmax
        THEN [impact |-> TRUE, toi |-> root]
        ELSE [impact |-> FALSE,
              toi |-> IF p.miss = "keep" THEN toi ELSE Infinity]

(***************************************************************************)
(* ccd_strategy (ccd.cpp:21-51).  (p, tmax) stand for the closure `ccd`.   *)
(* The result records the return value, the toi written through the        *)
(* reference, the oracle queries made in order, and whether each assert    *)
(* held (the function goes on as an NDEBUG build does).                    *)
(***************************************************************************)
Query(min_distance, no_zero_toi, ans) ==
    [min_distance |-> min_distance, no_zero_toi |-> no_zero_toi,
     impact |-> ans.impact, toi |-> ans.toi]

\* ccd_strategy without the zero-distance return of lines 30-34.
ccd_strategy_noZeroCheck(p, tmax, initial_distance, conservative_rescaling, toi) ==
    LET r == conservative_rescaling
        min_distance == MulFrac(initial_distance, r.den - r.num, r.den)
        a1 == Oracle(p, tmax, min_distance, FALSE, toi)
        q1 == Query(min_distance, FALSE, a1)
    IN  IF a1.impact /\ a1.toi < SMALL_TOI
        THEN LET a2 == Oracle(p, tmax, 0, TRUE, a1.toi)
                 toi2 == IF a2.impact
                         THEN MulFrac(a2.toi, r.num, r.den)
                         ELSE a2.toi
             IN  [ret |-> a1.impact, toi |-> toi2,
                  queries |-> <<q1, Query(0, TRUE, a2)>>,
                  assert_min |-> min_distance < initial_distance,
                  assert_toi |-> a2.impact => (toi2 # 0)]
        ELSE [ret |-> a1.impact, toi |-> a1.toi, queries |-> <<q1>>,
              assert_min |-> min_distance < initial_distance,
              assert_toi |-> TRUE]

\* ccd_strategy without the rescaling of line 45.
ccd_strategy_noRescale(p, tmax, initial_distance, conservative_rescaling, toi) ==
    IF initial_distance = 0
    THEN [ret |-> TRUE, toi |-> 0, queries |-> <<>>,
          assert_min |-> TRUE, assert_toi |-> TRUE]
    ELSE
    LET r == conservative_rescaling
        min_distance == MulFrac(initial_distance, r.den - r.num, r.den)
        a1 == Oracle(p, tmax, min_distance, FALSE, toi)
        q1 == Query(min_distance, FALSE, a1)
    IN  IF a1.impact /\ a1.toi < SMALL_TOI
        THEN LET a2 == Oracle(p, tmax, 0, TRUE, a1.toi)
             IN  [ret |-> a1.impact, toi |-> a2.toi,
                  queries |-> <<q1, Query(0, TRUE, a2)>>,
                  assert_min |-> min_distance < initial_distance,
                  assert_toi |-> a2.impact => (a2.toi # 0)]
        ELSE [ret |-> a1.impact, toi |-> a1.toi, queries |-> <<q1>>,
              assert_min |-> min_distance < initial_distance,
              assert_toi |-> TRUE]

ccd_strategy(p, tmax, initial_distance, conservative_rescaling, toi) ==
    IF initial_distance = 0
    THEN [ret |-> TRUE, toi |-> 0, queries |-> <<>>,
          assert_min |-> TRUE, assert_toi |-> TRUE]
    ELSE
    LET r == conservative_rescaling
        min_distance == MulFrac(initial_distance, r.den - r.num, r.den)
        a1 == Oracle(p, tmax, min_distance, FALSE, toi)
        is_impacting == a1.impact
        q1 == Query(min_distance, FALSE, a1)
    IN  IF is_impacting /\ a1.toi < SMALL_TOI
        THEN LET a2 == Oracle(p, tmax, 0, TRUE, a1.toi)
                 \* the inner is_impacting (line 42) shadows the outer one
                 inner_is_impacting == a2.impact
                 toi2 == IF inner_is_impacting
                         THEN MulFrac(a2.toi, r.num, r.den)
                         ELSE a2.toi
             IN  [ret |-> is_impacting, toi |-> toi2,
                  queries |-> <<q1, Query(0, TRUE, a2)>>,
                  assert_min |-> min_distance < initial_distance,
                  assert_toi |-> inner_is_impacting => (toi2 # 0)]
        ELSE [ret |-> is_impacting, toi |-> a1.toi, queries |-> <<q1>>,
              assert_min |-> min_distance < initial_distance,
              assert_toi |-> TRUE]

\* A primitive-pair wrapper (point_point_ccd, ...): asserts tmax in [0,1],
\* computes the start-of-step distance and calls ccd_strategy.
candidate_ccd(p, toi, tmax, conservative_rescaling) ==
    LET initial_distance == p.d0
        s == ccd_strategy(p, tmax, initial_distance, conservative_rescaling, toi)
    IN  [ret |-> s.ret, toi |-> s.toi, queries |-> s.queries,
         assert_tmax |-> (tmax >= 0 /\ tmax <= ONE),
         assert_min |-> s.assert_min, assert_toi |-> s.assert_toi]

(***************************************************************************)
(* is_step_collision_free, candidate overload (ipc.cpp, lines 199-225): a  *)
(* sequential loop that tests candidate k with tmax = 1 and returns false  *)
(* at the first collision.  `double toi;` of line 215 is not initialized:  *)
(* uninit[k] is the value the k-th call finds in it.  The result records   *)
(* the value returned and the number of candidates tested.                 *)
(***************************************************************************)
\* The loop without `return false`: the flag of the last candidate decides.
StepLoop_lastDecides(candidates, conservative_rescaling, uninit, k) ==
    IF Len(candidates) = 0
    THEN [ret |-> TRUE, tested |-> 0]
    ELSE [ret |-> ~candidate_ccd(candidates[Len(candidates)], uninit[Len(candidates)], ONE, conservative_rescaling).ret,
          tested |-> Len(candidates)]

RECURSIVE StepLoop(_, _, _, _)
StepLoop(candidates, conservative_rescaling, uninit, k) ==
    IF k > Len(candidates)
    THEN [ret |-> TRUE, tested |-> Len(candidates)]
    ELSE LET is_collision ==
                 candidate_ccd(candidates[k], uninit[k], ONE,
                               conservative_rescaling).ret
         IN  IF is_collision
             THEN [ret |-> FALSE, tested |-> k]
             ELSE StepLoop(candidates, conservative_rescaling, uninit, k + 1)

is_step_collision_free(candidates, conservative_rescaling, uninit) ==
    StepLoop(candidates, conservative_rescaling, uninit, 1)

(***************************************************************************)
(* The primitive-pair wrappers and point_edge_ccd (ccd.cpp, lines 53-303), *)
(* called directly, in the build with IPC_TOOLKIT_WITH_CORRECT_CCD         *)
(* (correct) and in the build without it.  A result records how the call   *)
(* ended, the value returned, the toi written, the functions entered in    *)
(* order (trace) and the result of ccd_strategy when it was called.        *)
(***************************************************************************)
WrapperNames ==
    {"point_point_ccd", "point_edge_ccd_2D", "point_edge_ccd_3D",
     "edge_edge_ccd", "point_triangle_ccd"}

\* assert(tmax >= 0 && tmax <= 1.0) fails: the call ends there.
AssertFailed(name, toi) ==
    [status |-> "assert_failed", ret |-> "none", toi |-> toi,
     trace |-> <<name>>, strategy |-> <<>>]

\* A wrapper whose body is: assert on tmax, closure around the root-finder,
\* start-of-step distance, return ccd_strategy(...).  The CTCD root-finder
\* of the other build is given neither tmax nor no_zero_toi: it searches the
\* whole step, and never reports 0 for the separation 0 when the pair starts
\* apart (p.tZero > 0).
wrapper_ccd(name, correct, p, toi, tmax, conservative_rescaling) ==
    IF ~(tmax >= 0 /\ tmax <= ONE)
    THEN AssertFailed(name, toi)
    ELSE LET initial_distance == p.d0
             s == ccd_strategy(p, IF correct THEN tmax ELSE ONE,
                               initial_distance, conservative_rescaling, toi)
         IN  [status |-> "returned", ret |-> s.ret, toi |-> s.toi,
              trace |-> <<name, "distance", "ccd_strategy">>,
              strategy |-> s]

\* point_edge_ccd_2D (lines 97-144).  Without IPC_TOOLKIT_WITH_CORRECT_CCD
\* the body is the call of inexact_point_edge_ccd_2D alone (lines 110-112):
\* its result is dropped and control flows off the end of the function, so
\* the caller reads an indeterminate value, ub.
point_edge_ccd_2D(correct, p, toi, tmax, conservative_rescaling, inexact, ub) ==
    IF correct
    THEN wrapper_ccd("point_edge_ccd_2D", correct, p, toi, tmax,
                     conservative_rescaling)
    ELSE [status |-> "returned", ret |-> ub, toi |-> inexact.toi,
          trace |-> <<"point_edge_ccd_2D", "inexact_point_edge_ccd_2D">>,
          strategy |-> <<>>]

point_edge_ccd_noAsserts(dims, correct, p, toi, tmax, conservative_rescaling, inexact, ub) == LET r == IF dims[1] = 2 THEN point_edge_ccd_2D(correct, p, toi, tmax, conservative_rescaling, inexact, ub) ELSE wrapper_ccd("point_edge_ccd_3D", correct, p, toi, tmax, conservative_rescaling) IN [r EXCEPT !.trace = <<"point_edge_ccd">> \o @]

\* point_edge_ccd (lines 187-215): dims are the sizes of p_t0, e0_t0, e1_t0,
\* p_t1, e0_t1, e1_t1.
point_edge_ccd(dims, correct, p, toi, tmax, conservative_rescaling, inexact, ub) ==
    LET dim == dims[1]
    IN  IF \E k \in 2..6 : dims[k] # dim
        THEN AssertFailed("point_edge_ccd", toi)
        ELSE LET r == IF dim = 2
                      THEN point_edge_ccd_2D(correct, p, toi, tmax,
                                             conservative_rescaling, inexact, ub)
                      ELSE wrapper_ccd("point_edge_ccd_3D", correct, p, toi,
                                       tmax, conservative_rescaling)
             IN  [r EXCEPT !.trace = <<"point_edge_ccd">> \o @]

(***************************************************************************)
(* State.                                                                  *)
(***************************************************************************)
VARIABLES
    candidates,             \* the Candidates of the call, a sequence of pairs
    conservative_rescaling, \* the rescaling factor the wrappers are given
    ranges,                 \* the blocked_range chunks: begin |-> end (exclusive)
    phase,                  \* "call", "parallel", "returned"
    earliest_toi,           \* the shared bound (ipc.cpp:285)
    earliest_toi_mutex,     \* 0: free, else the chunk holding the lock
    pc,                     \* per chunk: "ccd", "lock", "update", "done"
    i,                      \* per chunk: the loop index
    toi,                    \* per chunk: the local toi of the iteration
    result,                 \* the value returned, Infinity before the return
    calls,                  \* history: the ccd calls made, with what they returned
    writes,                 \* history: the values written to earliest_toi, in order
    final_assert,           \* history: the assert at ipc.cpp:320 held
    sIn,                    \* a direct call of ccd_strategy: its inputs
    sOut,                   \* and its result (<<>> before the call)
    \* the potential, gradient, Hessian and shape-derivative assemblers
    aOp,                    \* "potential", "gradient", "hessian", "shape"
    constraint_set,         \* the Constraints of the call, a sequence
    project_hessian_to_psd, \* the flag of compute_barrier_potential_hessian
    aRanges,                \* the blocked_range chunks: begin |-> end (exclusive)
    aPhase,                 \* "idle", "call", "parallel", "shape_loop",
                            \* "returned", "assert_failed"
    chunkState,             \* per chunk: "pending", "running", "done"
    cur,                    \* per thread: the chunk it runs, 0 when idle
    idx,                    \* per thread: the loop index i
    storage,                \* enumerable_thread_specific: thread |-> its local
    aResult,                \* the value returned (<<"none">> before the return)
    shape_derivative,       \* the local of compute_barrier_shape_derivative
    shape_i,                \* its loop index
    evals,                  \* history: per constraint, the evaluations made
    launched,               \* history: the parallel_for calls of this call
    callsLeft,              \* further calls the client will make
    prev,                   \* history: the calls that returned, in order
    \* has_intersections
    V_cols,                 \* V.cols()
    ee_candidates,          \* per edge-edge candidate: the exact test's answer
    ef_candidates,          \* per edge-face candidate: the exact test's answer
    hiPhase,                \* "idle", "call", "ee_loop", "ef_loop", "returned"
    hi_i,                   \* the position of the range-for
    hiTested,               \* history: the candidates tested, in order
    hiResult,               \* the value returned
    \* a direct call of a primitive-pair wrapper or of point_edge_ccd
    wIn,
    wOut,
    \* a direct call of line_line_distance: its arguments and its result
    llIn,
    llOut,
    \* is_step_collision_free called on the candidates of the reducer
    stepFree

fnVars == <<llIn, llOut, stepFree>>

asmVars == <<aOp, constraint_set, project_hessian_to_psd, aRanges, aPhase,
             chunkState, cur, idx, storage, aResult, shape_derivative, shape_i,
             evals, launched, callsLeft, prev>>

hiVars == <<V_cols, ee_candidates, ef_candidates, hiPhase, hi_i, hiTested,
            hiResult>>

wrapVars == <<wIn, wOut>>

vars == <<candidates, conservative_rescaling, ranges, phase, earliest_toi,
          earliest_toi_mutex, pc, i, toi, result, calls, writes, final_assert,
          sIn, sOut, asmVars, hiVars, wrapVars, fnVars>>

\* No assembler call, no has_intersections call, no wrapper call is made.
IdleAssembler ==
    /\ aOp = "potential"
    /\ constraint_set = <<>>
    /\ project_hessian_to_psd = FALSE
    /\ aRanges = <<>>
    /\ aPhase = "idle"
    /\ chunkState = <<>>
    /\ cur = <<>>
    /\ idx = <<>>
    /\ storage = <<>>
    /\ aResult = <<"none">>
    /\ shape_derivative = <<>>
    /\ shape_i = 0
    /\ evals = <<>>
    /\ launched = 0
    /\ callsLeft = 0
    /\ prev = <<>>

IdleIntersections ==
    /\ V_cols = 2
    /\ ee_candidates = <<>>
    /\ ef_candidates = <<>>
    /\ hiPhase = "idle"
    /\ hi_i = 0
    /\ hiTested = <<>>
    /\ hiResult = <<"none">>

IdleWrappers ==
    /\ wIn = <<>>
    /\ wOut = <<>>

IdleFunctions ==
    /\ llIn = <<>>
    /\ llOut = <<>>
    /\ stepFree = <<>>

reducerVars == <<candidates, conservative_rescaling, ranges, phase, earliest_toi,
                 earliest_toi_mutex, pc, i, toi, result, calls, writes,
                 final_assert>>

(***************************************************************************)
(* The reducer's inputs.  A wrapper computes initial_distance as the       *)
(* square root of a double, which is 0 or far above the spacing of the     *)
(* format, so the pairs of a candidate set have d0 = 0 or d0 = 10.         *)
(***************************************************************************)
ReducerTimes == {0, ONE \div 2, (6 * ONE) \div 10, Infinity}

ReducerPairs ==
    { p \in Pairs :
        /\ p.d0 \in {0, 10}
        /\ p.tMargin \in ReducerTimes
        /\ p.tZero \in ReducerTimes
        /\ (p.tMargin >= SMALL_TOI) => (p.miss = "inf") }

CandidateSets ==
    UNION { [1..n -> ReducerPairs] : n \in 0..MaxCand }

\* Every way tbb::blocked_range<size_t>(0, n) splits into contiguous chunks:
\* a chunk is begin |-> end, 1-based, end exclusive.
ChunkEnd(b, cuts, n) ==
    CHOOSE e \in (b + 1)..(n + 1) :
        /\ (e - 1) \in (cuts \cup {n})
        /\ \A c \in (cuts \cup {n}) : (c >= b) => (c >= e - 1)

Chunks(n) ==
    { [b \in ({1} \cup {c + 1 : c \in cuts}) |-> ChunkEnd(b, cuts, n)] :
      cuts \in SUBSET (1..(n - 1)) }

NoRanges == [b \in {} |-> 0]

Init ==
    /\ candidates \in CandidateSets
    /\ conservative_rescaling \in RSet
    /\ ranges \in IF Len(candidates) = 0 THEN {NoRanges} ELSE Chunks(Len(candidates))
    /\ phase = "call"
    /\ earliest_toi = Infinity
    /\ earliest_toi_mutex = 0
    /\ pc = NoRanges
    /\ i = NoRanges
    /\ toi = NoRanges
    /\ result = Infinity
    /\ calls = {}
    /\ writes = <<>>
    /\ final_assert = TRUE
    /\ sIn = <<>>
    /\ sOut = <<>>
    /\ IdleAssembler
    /\ IdleIntersections
    /\ IdleWrappers
    /\ IdleFunctions

(***************************************************************************)
(* compute_collision_free_stepsize (ipc.cpp:266-322).                      *)
(***************************************************************************)

\* The empty-set return left out: the call goes on to line 285.
ReturnEmpty_intoLoop ==
    /\ phase = "call"
    /\ Len(candidates) = 0
    /\ earliest_toi' = ONE
    /\ phase' = "parallel"
    /\ UNCHANGED <<candidates, conservative_rescaling, ranges,
                   earliest_toi_mutex, pc, i, toi, result, calls, writes,
                   final_assert, sIn, sOut, asmVars, hiVars, wrapVars, fnVars>>

\* ipc.cpp:279-281: if (candidates.empty()) return 1;
ReturnEmpty ==
    /\ phase = "call"
    /\ Len(candidates) = 0
    /\ result' = ONE
    /\ phase' = "returned"
    /\ UNCHANGED <<candidates, conservative_rescaling, ranges, earliest_toi,
                   earliest_toi_mutex, pc, i, toi, calls, writes, final_assert,
                   sIn, sOut, asmVars, hiVars, wrapVars, fnVars>>

\* earliest_toi initialised like the local toi of line 298.
StartParallel_InfBound ==
    /\ phase = "call"
    /\ Len(candidates) # 0
    /\ earliest_toi' = Infinity
    /\ earliest_toi_mutex' = 0
    /\ pc' = [b \in DOMAIN ranges |-> "ccd"]
    /\ i' = [b \in DOMAIN ranges |-> b]
    /\ toi' = [b \in DOMAIN ranges |-> Infinity]
    /\ phase' = "parallel"
    /\ UNCHANGED <<candidates, conservative_rescaling, ranges, result, calls,
                   writes, final_assert, sIn, sOut, asmVars, hiVars, wrapVars, fnVars>>

\* ipc.cpp:285-293: earliest_toi = 1, the mutex, and the parallel_for starts.
StartParallel ==
    /\ phase = "call"
    /\ Len(candidates) # 0
    /\ earliest_toi' = ONE
    /\ earliest_toi_mutex' = 0
    /\ pc' = [b \in DOMAIN ranges |-> "ccd"]
    /\ i' = [b \in DOMAIN ranges |-> b]
    /\ toi' = [b \in DOMAIN ranges |-> Infinity]
    /\ phase' = "parallel"
    /\ UNCHANGED <<candidates, conservative_rescaling, ranges, result, calls,
                   writes, final_assert, sIn, sOut, asmVars, hiVars, wrapVars, fnVars>>

\* The loop of line 297 without its i++.
NextIteration_stuck(b) ==
    /\ i' = i
    /\ pc' = [pc EXCEPT ![b] = "ccd"]

\* i++ and the loop test of ipc.cpp:297.
NextIteration(b) ==
    /\ i' = [i EXCEPT ![b] = i[b] + 1]
    /\ pc' = [pc EXCEPT ![b] = IF i[b] + 1 < ranges[b] THEN "ccd" ELSE "done"]

\* Lines 298-303 with the local toi passed as tmax.
CallCcd_toiAsTmax(b) ==
    /\ phase = "parallel"
    /\ pc[b] = "ccd"
    /\ LET tmax == Infinity
           c == candidate_ccd(candidates[i[b]], Infinity, tmax,
                              conservative_rescaling)
       IN  /\ toi' = [toi EXCEPT ![b] = c.toi]
           /\ calls' = calls \cup {[i |-> i[b], tmax |-> tmax, ret |-> c.ret,
                                    toi |-> c.toi, nq |-> Len(c.queries),
                                    assert_tmax |-> c.assert_tmax]}
           /\ IF c.ret
              THEN /\ pc' = [pc EXCEPT ![b] = "lock"]
                   /\ i' = i
              ELSE NextIteration(b)
    /\ UNCHANGED <<candidates, conservative_rescaling, ranges, phase,
                   earliest_toi, earliest_toi_mutex, result, writes,
                   final_assert, sIn, sOut, asmVars, hiVars, wrapVars, fnVars>>

\* ipc.cpp:298-303: toi = infinity; are_colliding = candidates[i].ccd(...,
\* tmax = earliest_toi, ...).  earliest_toi is read without the lock; an
\* aligned 8-byte load returns the value of some write, and which one is the
\* choice of the interleaving.  tmax is passed by value and the call touches
\* no shared state, so the read and the call are one step.
CallCcd(b) ==
    /\ phase = "parallel"
    /\ pc[b] = "ccd"
    /\ LET tmax == earliest_toi
           c == candidate_ccd(candidates[i[b]], Infinity, tmax,
                              conservative_rescaling)
           are_colliding == c.ret
       IN  /\ toi' = [toi EXCEPT ![b] = c.toi]
           /\ calls' = calls \cup {[i |-> i[b], tmax |-> tmax, ret |-> c.ret,
                                    toi |-> c.toi, nq |-> Len(c.queries),
                                    assert_tmax |-> c.assert_tmax]}
           /\ IF are_colliding
              THEN /\ pc' = [pc EXCEPT ![b] = "lock"]
                   /\ i' = i
              ELSE NextIteration(b)
    /\ UNCHANGED <<candidates, conservative_rescaling, ranges, phase,
                   earliest_toi, earliest_toi_mutex, result, writes,
                   final_assert, sIn, sOut, asmVars, hiVars, wrapVars, fnVars>>

\* ipc.cpp:305: std::lock_guard<std::mutex> lock(earliest_toi_mutex);
Lock(b) ==
    /\ phase = "parallel"
    /\ pc[b] = "lock"
    /\ earliest_toi_mutex = 0
    /\ earliest_toi_mutex' = b
    /\ pc' = [pc EXCEPT ![b] = "update"]
    /\ UNCHANGED <<candidates, conservative_rescaling, ranges, phase,
                   earliest_toi, i, toi, result, calls, writes, final_assert,
                   sIn, sOut, asmVars, hiVars, wrapVars, fnVars>>

\* The assignment of line 308 without the comparison of line 307.
Update_noCompare(b) ==
    /\ phase = "parallel"
    /\ pc[b] = "update"
    /\ earliest_toi_mutex = b
    /\ earliest_toi' = toi[b]
    /\ writes' = Append(writes, toi[b])
    /\ earliest_toi_mutex' = 0
    /\ NextIteration(b)
    /\ UNCHANGED <<candidates, conservative_rescaling, ranges, phase, toi,
                   result, calls, final_assert, sIn, sOut, asmVars, hiVars, wrapVars, fnVars>>

\* The comparison of line 307 the wrong way round.
Update_wrongCompare(b) ==
    /\ phase = "parallel"
    /\ pc[b] = "update"
    /\ earliest_toi_mutex = b
    /\ IF toi[b] > earliest_toi
       THEN /\ earliest_toi' = toi[b]
            /\ writes' = Append(writes, toi[b])
       ELSE UNCHANGED <<earliest_toi, writes>>
    /\ earliest_toi_mutex' = 0
    /\ NextIteration(b)
    /\ UNCHANGED <<candidates, conservative_rescaling, ranges, phase, toi,
                   result, calls, final_assert, sIn, sOut, asmVars, hiVars, wrapVars, fnVars>>

\* Lines 307-310 with a mutex that stays locked after the block.
Update_keepLock(b) ==
    /\ phase = "parallel"
    /\ pc[b] = "update"
    /\ earliest_toi_mutex = b
    /\ IF toi[b] < earliest_toi
       THEN /\ earliest_toi' = toi[b]
            /\ writes' = Append(writes, toi[b])
       ELSE UNCHANGED <<earliest_toi, writes>>
    /\ NextIteration(b)
    /\ UNCHANGED <<candidates, conservative_rescaling, ranges, phase, toi,
                   earliest_toi_mutex, result, calls, final_assert, sIn, sOut,
                   asmVars, hiVars, wrapVars, fnVars>>

\* Lines 307-310 with <= for <.
Update_notStrict(b) ==
    /\ phase = "parallel"
    /\ pc[b] = "update"
    /\ earliest_toi_mutex = b
    /\ IF toi[b] <= earliest_toi
       THEN /\ earliest_toi' = toi[b]
            /\ writes' = Append(writes, toi[b])
       ELSE UNCHANGED <<earliest_toi, writes>>
    /\ earliest_toi_mutex' = 0
    /\ NextIteration(b)
    /\ UNCHANGED <<candidates, conservative_rescaling, ranges, phase, toi,
                   result, calls, final_assert, sIn, sOut, asmVars, hiVars,
                   wrapVars, fnVars>>

\* ipc.cpp:307-310: if (toi < earliest_toi) earliest_toi = toi; the
\* lock_guard releases the mutex at the end of the block.
Update(b) ==
    /\ phase = "parallel"
    /\ pc[b] = "update"
    /\ earliest_toi_mutex = b
    /\ IF toi[b] < earliest_toi
       THEN /\ earliest_toi' = toi[b]
            /\ writes' = Append(writes, toi[b])
       ELSE UNCHANGED <<earliest_toi, writes>>
    /\ earliest_toi_mutex' = 0
    /\ NextIteration(b)
    /\ UNCHANGED <<candidates, conservative_rescaling, ranges, phase, toi,
                   result, calls, final_assert, sIn, sOut, asmVars, hiVars, wrapVars, fnVars>>

\* ipc.cpp:312-321: parallel_for returns when every chunk is done; the
\* assert, and the return.
Return ==
    /\ phase = "parallel"
    /\ \A b \in DOMAIN ranges : pc[b] = "done"
    /\ final_assert' = (earliest_toi >= 0 /\ earliest_toi <= ONE)
    /\ result' = earliest_toi
    /\ phase' = "returned"
    /\ UNCHANGED <<candidates, conservative_rescaling, ranges, earliest_toi,
                   earliest_toi_mutex, pc, i, toi, calls, writes, sIn, sOut, asmVars, hiVars, wrapVars, fnVars>>

Next ==
    \/ ReturnEmpty
    \/ StartParallel
    \/ \E b \in DOMAIN ranges : CallCcd(b)
    \/ \E b \in DOMAIN ranges : Lock(b)
    \/ \E b \in DOMAIN ranges : Update(b)
    \/ Return

Spec == Init /\ [][Next]_vars

(***************************************************************************)
(* The reducer under fair scheduling: the calling thread goes on, and a    *)
(* range that can take a step eventually takes one (a task runs to         *)
(* completion once scheduled, and a worker blocked on the mutex is woken   *)
(* when it is released).                                                   *)
(***************************************************************************)
Worker(b) ==
    /\ b \in DOMAIN ranges
    /\ (CallCcd(b) \/ Lock(b) \/ Update(b))

Fairness ==
    /\ WF_vars(ReturnEmpty)
    /\ WF_vars(StartParallel)
    /\ \A b \in 1..MaxCand : WF_vars(Worker(b))
    /\ WF_vars(Return)

\* The calls the fair runs start from: one rescaling factor, and one pair of
\* each behaviour the loop body distinguishes: touching at the start, an
\* impact at time 0 for the scaled separation (second query), an impact
\* inside the step (lock and update), no impact (next iteration).
FairPairs ==
    { p \in ReducerPairs :
        \/ p.d0 = 0
        \/ /\ p.d0 = 10
           /\ <<p.tMargin, p.tZero>> \in
                 { <<0, ONE \div 2>>, <<ONE \div 2, (6 * ONE) \div 10>>,
                   <<Infinity, Infinity>> } }

InitFair ==
    /\ Init
    /\ conservative_rescaling = [num |-> 4, den |-> 5]
    /\ \A k \in DOMAIN candidates : candidates[k] \in FairPairs

SpecFair == InitFair /\ [][Next]_vars /\ Fairness

(***************************************************************************)
(* is_step_collision_free followed by compute_collision_free_stepsize on   *)
(* the same candidates and configurations: the first is called before the  *)
(* second starts, with any values in its uninitialized toi.                *)
(***************************************************************************)
UninitToi == {0, 7, Infinity}

CallStepFree ==
    /\ phase = "call"
    /\ stepFree = <<>>
    /\ \E uninit \in [DOMAIN candidates -> UninitToi] :
          stepFree' = is_step_collision_free(candidates,
                                             conservative_rescaling, uninit)
    /\ UNCHANGED <<llIn, llOut, reducerVars, sIn, sOut, asmVars, hiVars,
                   wrapVars>>

NextStep ==
    \/ CallStepFree
    \/ Next

SpecStep == Init /\ [][NextStep]_vars

(***************************************************************************)
(* A direct call of ccd_strategy, over every sample pair, tmax, rescaling  *)
(* factor and incoming value of toi.                                       *)
(***************************************************************************)
TmaxSamples == {0, SMALL_TOI, ONE \div 2, ONE}

ToiSamples == {7, Infinity}

StrategyInputs ==
    [p : Pairs, tmax : TmaxSamples, conservative_rescaling : RSet,
     toi : ToiSamples]

InitStrategy ==
    /\ sIn \in StrategyInputs
    /\ sOut = <<>>
    /\ candidates = <<>>
    /\ conservative_rescaling = sIn.conservative_rescaling
    /\ ranges = NoRanges
    /\ phase = "strategy"
    /\ earliest_toi = Infinity
    /\ earliest_toi_mutex = 0
    /\ pc = NoRanges
    /\ i = NoRanges
    /\ toi = NoRanges
    /\ result = Infinity
    /\ calls = {}
    /\ writes = <<>>
    /\ final_assert = TRUE
    /\ IdleAssembler
    /\ IdleIntersections
    /\ IdleWrappers
    /\ IdleFunctions

CallStrategy ==
    /\ phase = "strategy"
    /\ sOut = <<>>
    /\ sOut' = ccd_strategy(sIn.p, sIn.tmax, sIn.p.d0,
                            sIn.conservative_rescaling, sIn.toi)
    /\ UNCHANGED <<sIn, reducerVars, asmVars, hiVars, wrapVars, fnVars>>

NextStrategy == CallStrategy

SpecStrategy == InitStrategy /\ [][NextStrategy]_vars

(***************************************************************************)
(* The potential, gradient, Hessian and shape-derivative assemblers        *)
(* (ipc.cpp, lines 26-174).  V has NumVertices rows and Dim columns, so    *)
(* the assert V.rows() == mesh.num_vertices() of each assembler holds.     *)
(* Contributions are integers: sums are exact, as the statements about     *)
(* these functions suppose.                                                *)
(***************************************************************************)
NumVertices == 3

Dim == 2

\* The worker threads of the pool that runs tbb::parallel_for.
NumThreads == 2

\* The longest constraint set.
MaxCons == 2

\* V.size()
DOF == NumVertices * Dim

Dofs == 0..(DOF - 1)

ZeroVector == [d \in Dofs |-> 0]

ZeroMatrix == [rc \in Dofs \X Dofs |-> 0]

Threads == 1..NumThreads

\* A constraint: its vertex_indices, the sign and size k of its barrier
\* terms, its weight and the size of its weight_gradient.
ConstraintSamples ==
    { [vids |-> <<0, 1>>, k |-> 2, weight |-> 2, wg_size |-> DOF],
      [vids |-> <<1, 2>>, k |-> -1, weight |-> 1, wg_size |-> DOF],
      [vids |-> <<NumVertices - 1, 0, 1>>, k |-> 1, weight |-> 3, wg_size |-> DOF],
      [vids |-> <<0, 1>>, k |-> 1, weight |-> 0, wg_size |-> DOF],
      [vids |-> <<1, 2>>, k |-> 1, weight |-> 1, wg_size |-> DOF - 1] }

ConstraintSets ==
    UNION { [1..n -> ConstraintSamples] : n \in 0..MaxCons }

RECURSIVE SumFn(_, _)
\* The sum of f[x] over the x of S.
SumFn(f, S) ==
    IF S = {} THEN 0
    ELSE LET x == CHOOSE y \in S : TRUE IN f[x] + SumFn(f, S \ {x})

\* The per-constraint formulas.  The weight is premultiplied; the local
\* Hessian is the rank-one matrix weight * k * u u^T with u[a] = a + 1, whose
\* projection on the positive semi-definite matrices is 0 when k < 0.
vertex_indices(c) == c.vids

LocalDofs(c) == 0..(Len(c.vids) * Dim - 1)

compute_potential(c) == c.weight * c.k

compute_potential_gradient(c) ==
    [a \in LocalDofs(c) |-> c.weight * c.k * (a + 1)]

compute_potential_hessian(c, project) ==
    [ab \in LocalDofs(c) \X LocalDofs(c) |->
        IF project /\ c.k < 0 THEN 0
        ELSE c.weight * c.k * (ab[1] + 1) * (ab[2] + 1)]

weight_gradient(c) == [d \in 0..(c.wg_size - 1) |-> d + c.k]

\* The global offset of local entry a: vertex_index * dim plus the coordinate.
GlobalDof(ids, dim, a) == ids[(a \div dim) + 1] * dim + (a % dim)

\* local_to_global.hpp: the local gradient is added into grad.
local_gradient_to_global_gradient(local_grad, ids, dim, grad) ==
    [d \in DOMAIN grad |->
        grad[d] + SumFn(local_grad, { a \in DOMAIN local_grad :
                                        GlobalDof(ids, dim, a) = d })]

\* local_to_global.hpp: one triplet per local entry is appended to triplets.
local_hessian_to_global_triplets(local_hessian, ids, dim, triplets) ==
    LET L == Len(ids) * dim
    IN  triplets \o
        [n \in 1..(L * L) |->
            LET a == (n - 1) \div L
                b == (n - 1) % L
            IN  [row |-> GlobalDof(ids, dim, a), col |-> GlobalDof(ids, dim, b),
                 value |-> local_hessian[<<a, b>>]]]

\* What storage.local() holds when a thread first asks for it.
ZeroLocal(op) ==
    CASE op = "potential" -> 0
      [] op = "gradient" -> ZeroVector
      [] OTHER -> <<>>

AddPotential_assign(local_potential, c) == compute_potential(c)

\* local_potential += constraint_set[i].compute_potential(V, E, F, dhat)
AddPotential(local_potential, c) == local_potential + compute_potential(c)

HessianFlag_projected(op, flag) == IF op = "shape" THEN TRUE ELSE flag

\* compute_barrier_shape_derivative calls the Hessian assembler with false.
HessianFlag(op, flag) == IF op = "shape" THEN FALSE ELSE flag

\* The body of the loop of a range, for constraint c.
Accumulate(op, local, c, flag) ==
    CASE op = "potential" -> AddPotential(local, c)
      [] op = "gradient" ->
            local_gradient_to_global_gradient(compute_potential_gradient(c),
                                              vertex_indices(c), Dim, local)
      [] OTHER ->
            local_hessian_to_global_triplets(
                compute_potential_hessian(c, HessianFlag(op, flag)),
                vertex_indices(c), Dim, local)

SetFromTriplets_lastWins(triplets) == [rc \in Dofs \X Dofs |-> LET at == { n \in DOMAIN triplets : triplets[n].row = rc[1] /\ triplets[n].col = rc[2] } IN IF at = {} THEN 0 ELSE triplets[CHOOSE n \in at : \A m \in at : m <= n].value]

\* Eigen's setFromTriplets on a V.size() x V.size() matrix: the values of
\* the triplets of one (row, col) are summed.
SetFromTriplets(triplets) ==
    [rc \in Dofs \X Dofs |->
        SumFn([n \in DOMAIN triplets |-> triplets[n].value],
              { n \in DOMAIN triplets :
                  triplets[n].row = rc[1] /\ triplets[n].col = rc[2] })]

MergePotential_static(st) == (IF Len(prev) > 0 /\ prev[Len(prev)].op = "potential" THEN prev[Len(prev)].result ELSE 0) + SumFn(st, DOMAIN st)

\* double potential = 0; for each local: potential += local_potential
MergePotential(st) == 0 + SumFn(st, DOMAIN st)

MergeGradient_assign(st) == [d \in Dofs |-> IF DOMAIN st = {} THEN 0 ELSE st[CHOOSE t \in DOMAIN st : \A u \in DOMAIN st : u <= t][d]]

\* grad = Zero(V.size()); for each local: grad += local_grad
MergeGradient(st) ==
    [d \in Dofs |-> SumFn([t \in DOMAIN st |-> st[t][d]], DOMAIN st)]

\* hess(V.size(), V.size()); for each local: setFromTriplets, hess += local_hess
MergeHessian(st) ==
    LET local_hess == [t \in DOMAIN st |-> SetFromTriplets(st[t])]
    IN  [rc \in Dofs \X Dofs |->
            SumFn([t \in DOMAIN st |-> local_hess[t][rc]], DOMAIN st)]

MergeStorage(op, st) ==
    CASE op = "potential" -> MergePotential(st)
      [] op = "gradient" -> MergeGradient(st)
      [] OTHER -> MergeHessian(st)

\* What the empty-set shortcut of an assembler returns.
EmptyResult(op) ==
    CASE op = "potential" -> 0
      [] op = "gradient" -> ZeroVector
      [] OTHER -> ZeroMatrix

\* The reducer and ccd_strategy are not called.
IdleReducer ==
    /\ candidates = <<>>
    /\ conservative_rescaling = [num |-> 4, den |-> 5]
    /\ ranges = NoRanges
    /\ phase = "idle"
    /\ earliest_toi = Infinity
    /\ earliest_toi_mutex = 0
    /\ pc = NoRanges
    /\ i = NoRanges
    /\ toi = NoRanges
    /\ result = Infinity
    /\ calls = {}
    /\ writes = <<>>
    /\ final_assert = TRUE
    /\ sIn = <<>>
    /\ sOut = <<>>

otherVars == <<reducerVars, sIn, sOut, hiVars, wrapVars, fnVars>>

AssemblerOps == {"potential", "gradient", "hessian", "shape"}

InitAssembler ==
    /\ IdleReducer
    /\ IdleIntersections
    /\ IdleWrappers
    /\ IdleFunctions
    /\ aOp \in AssemblerOps
    /\ constraint_set \in ConstraintSets
    /\ project_hessian_to_psd \in (IF aOp = "hessian" THEN BOOLEAN ELSE {FALSE})
    /\ aRanges \in IF Len(constraint_set) = 0 THEN {NoRanges}
                   ELSE Chunks(Len(constraint_set))
    /\ aPhase = "call"
    /\ chunkState = [b \in DOMAIN aRanges |-> "pending"]
    /\ cur = [t \in Threads |-> 0]
    /\ idx = [t \in Threads |-> 0]
    /\ storage = <<>>
    /\ aResult = <<"none">>
    /\ shape_derivative = <<>>
    /\ shape_i = 0
    /\ evals = [n \in 1..Len(constraint_set) |-> <<>>]
    /\ launched = 0
    /\ callsLeft = 0
    /\ prev = <<>>

AsmReturnEmpty_intoLoop == /\ aPhase = "call" /\ Len(constraint_set) = 0 /\ aPhase' = "parallel" /\ launched' = launched + 1 /\ UNCHANGED <<aOp, constraint_set, project_hessian_to_psd, aRanges, chunkState, cur, idx, storage, aResult, shape_derivative, shape_i, evals, callsLeft, prev, otherVars>>

\* if (constraint_set.empty()) return 0 / Zero(V.size()) / an empty matrix.
\* The shape derivative gets the empty matrix from its Hessian call and
\* goes on to its own loop.
AsmReturnEmpty ==
    /\ aPhase = "call"
    /\ Len(constraint_set) = 0
    /\ IF aOp = "shape"
       THEN /\ shape_derivative' = EmptyResult(aOp)
            /\ shape_i' = 1
            /\ aPhase' = "shape_loop"
            /\ UNCHANGED aResult
       ELSE /\ aResult' = EmptyResult(aOp)
            /\ aPhase' = "returned"
            /\ UNCHANGED <<shape_derivative, shape_i>>
    /\ UNCHANGED <<aOp, constraint_set, project_hessian_to_psd, aRanges,
                   chunkState, cur, idx, storage, evals, launched, callsLeft,
                   prev, otherVars>>

\* The storage is constructed, with no local yet, and parallel_for starts.
AsmStartParallel ==
    /\ aPhase = "call"
    /\ Len(constraint_set) > 0
    /\ storage' = <<>>
    /\ launched' = launched + 1
    /\ aPhase' = "parallel"
    /\ UNCHANGED <<aOp, constraint_set, project_hessian_to_psd, aRanges,
                   chunkState, cur, idx, aResult, shape_derivative, shape_i,
                   evals, callsLeft, prev, otherVars>>

\* An idle thread t starts the range that begins at b: storage.local() is
\* created on the thread's first range and found again on its later ones.
TakeChunk(t, b) ==
    /\ aPhase = "parallel"
    /\ cur[t] = 0
    /\ chunkState[b] = "pending"
    /\ chunkState' = [chunkState EXCEPT ![b] = "running"]
    /\ cur' = [cur EXCEPT ![t] = b]
    /\ idx' = [idx EXCEPT ![t] = b]
    /\ storage' = [u \in DOMAIN storage \cup {t} |->
                      IF u \in DOMAIN storage THEN storage[u]
                      ELSE ZeroLocal(aOp)]
    /\ UNCHANGED <<aOp, constraint_set, project_hessian_to_psd, aRanges, aPhase,
                   aResult, shape_derivative, shape_i, evals, launched,
                   callsLeft, prev, otherVars>>

\* The loop body with one accumulator shared by the threads: the local of the
\* first thread that asked for one.
ProcessConstraint_shared(t) ==
    /\ aPhase = "parallel"
    /\ cur[t] # 0
    /\ LET s == CHOOSE u \in DOMAIN storage : \A v \in DOMAIN storage : u <= v
       IN  storage' = [storage EXCEPT ![s] =
                          Accumulate(aOp, @, constraint_set[idx[t]],
                                     project_hessian_to_psd)]
    /\ evals' = [evals EXCEPT ![idx[t]] = Append(@, t)]
    /\ IF idx[t] + 1 < aRanges[cur[t]]
       THEN /\ idx' = [idx EXCEPT ![t] = @ + 1]
            /\ UNCHANGED <<cur, chunkState>>
       ELSE /\ idx' = [idx EXCEPT ![t] = 0]
            /\ cur' = [cur EXCEPT ![t] = 0]
            /\ chunkState' = [chunkState EXCEPT ![cur[t]] = "done"]
    /\ UNCHANGED <<aOp, constraint_set, project_hessian_to_psd, aRanges, aPhase,
                   aResult, shape_derivative, shape_i, launched, callsLeft,
                   prev, otherVars>>

\* One iteration of the loop of thread t's range; the range ends when i
\* reaches r.end().
ProcessConstraint(t) ==
    /\ aPhase = "parallel"
    /\ cur[t] # 0
    /\ storage' = [storage EXCEPT ![t] =
                      Accumulate(aOp, @, constraint_set[idx[t]],
                                 project_hessian_to_psd)]
    /\ evals' = [evals EXCEPT ![idx[t]] = Append(@, t)]
    /\ IF idx[t] + 1 < aRanges[cur[t]]
       THEN /\ idx' = [idx EXCEPT ![t] = @ + 1]
            /\ UNCHANGED <<cur, chunkState>>
       ELSE /\ idx' = [idx EXCEPT ![t] = 0]
            /\ cur' = [cur EXCEPT ![t] = 0]
            /\ chunkState' = [chunkState EXCEPT ![cur[t]] = "done"]
    /\ UNCHANGED <<aOp, constraint_set, project_hessian_to_psd, aRanges, aPhase,
                   aResult, shape_derivative, shape_i, launched, callsLeft,
                   prev, otherVars>>

\* parallel_for has returned: the locals are merged by the calling thread
\* and the storage is destroyed with the call.
Merge ==
    /\ aPhase = "parallel"
    /\ \A b \in DOMAIN chunkState : chunkState[b] = "done"
    /\ IF aOp = "shape"
       THEN /\ shape_derivative' = MergeStorage(aOp, storage)
            /\ shape_i' = 1
            /\ aPhase' = "shape_loop"
            /\ UNCHANGED aResult
       ELSE /\ aResult' = MergeStorage(aOp, storage)
            /\ aPhase' = "returned"
            /\ UNCHANGED <<shape_derivative, shape_i>>
    /\ storage' = <<>>
    /\ UNCHANGED <<aOp, constraint_set, project_hessian_to_psd, aRanges,
                   chunkState, cur, idx, evals, launched, callsLeft, prev,
                   otherVars>>

\* One iteration of the loop of compute_barrier_shape_derivative; a failed
\* assert ends the program.
ShapeStep ==
    /\ aPhase = "shape_loop"
    /\ shape_i <= Len(constraint_set)
    /\ LET constraint == constraint_set[shape_i]
           local_barrier_grad ==
               [a \in LocalDofs(constraint) |->
                   compute_potential_gradient(constraint)[a]
                       \div constraint.weight]
           barrier_grad ==
               local_gradient_to_global_gradient(
                   local_barrier_grad, vertex_indices(constraint), Dim,
                   ZeroVector)
       IN  IF constraint.wg_size # DOF \/ constraint.weight = 0
           THEN /\ aPhase' = "assert_failed"
                /\ UNCHANGED <<shape_derivative, shape_i>>
           ELSE /\ shape_derivative' =
                       [rc \in Dofs \X Dofs |->
                           shape_derivative[rc]
                             + barrier_grad[rc[1]]
                                 * weight_gradient(constraint)[rc[2]]]
                /\ shape_i' = shape_i + 1
                /\ UNCHANGED aPhase
    /\ UNCHANGED <<aOp, constraint_set, project_hessian_to_psd, aRanges,
                   chunkState, cur, idx, storage, aResult, evals, launched,
                   callsLeft, prev, otherVars>>

\* return shape_derivative
ShapeReturn ==
    /\ aPhase = "shape_loop"
    /\ shape_i > Len(constraint_set)
    /\ aResult' = shape_derivative
    /\ aPhase' = "returned"
    /\ UNCHANGED <<aOp, constraint_set, project_hessian_to_psd, aRanges,
                   chunkState, cur, idx, storage, shape_derivative, shape_i,
                   evals, launched, callsLeft, prev, otherVars>>

NextAssembler ==
    \/ AsmReturnEmpty
    \/ AsmStartParallel
    \/ \E t \in Threads : \E b \in DOMAIN aRanges : TakeChunk(t, b)
    \/ \E t \in Threads : ProcessConstraint(t)
    \/ Merge
    \/ ShapeStep
    \/ ShapeReturn

SpecAssembler == InitAssembler /\ [][NextAssembler]_vars

(***************************************************************************)
(* A client that calls the potential, gradient and Hessian assemblers      *)
(* MaxCalls times in a row, with any inputs of RepeatInputs.  aResult      *)
(* keeps the value of the last return until the next one.                  *)
(***************************************************************************)
MaxCalls == 2

RepeatSets ==
    LET c1 == [vids |-> <<0, 1>>, k |-> 2, weight |-> 2, wg_size |-> DOF]
        c2 == [vids |-> <<1, 2>>, k |-> -1, weight |-> 1, wg_size |-> DOF]
    IN  { <<>>, <<c1>>, <<c1, c2>> }

RepeatInputs ==
    { in \in [op : {"potential", "gradient", "hessian"}, cs : RepeatSets,
              flag : BOOLEAN] : (in.op # "hessian") => (in.flag = FALSE) }

RangesOf(cs) == IF Len(cs) = 0 THEN {NoRanges} ELSE Chunks(Len(cs))

InitRepeat ==
    /\ IdleReducer
    /\ IdleIntersections
    /\ IdleWrappers
    /\ IdleFunctions
    /\ \E in \in RepeatInputs :
          /\ aOp = in.op
          /\ constraint_set = in.cs
          /\ project_hessian_to_psd = in.flag
    /\ aRanges \in RangesOf(constraint_set)
    /\ aPhase = "call"
    /\ chunkState = [b \in DOMAIN aRanges |-> "pending"]
    /\ cur = [t \in Threads |-> 0]
    /\ idx = [t \in Threads |-> 0]
    /\ storage = <<>>
    /\ aResult = <<"none">>
    /\ shape_derivative = <<>>
    /\ shape_i = 0
    /\ evals = [n \in 1..Len(constraint_set) |-> <<>>]
    /\ launched = 0
    /\ callsLeft = MaxCalls - 1
    /\ prev = <<>>

\* The client calls again: the locals of the new call are those of a fresh
\* activation of the function.
NewCall ==
    /\ aPhase = "returned"
    /\ callsLeft > 0
    /\ \E in \in RepeatInputs : \E rs \in RangesOf(in.cs) :
          /\ aOp' = in.op
          /\ constraint_set' = in.cs
          /\ project_hessian_to_psd' = in.flag
          /\ aRanges' = rs
          /\ chunkState' = [b \in DOMAIN rs |-> "pending"]
          /\ evals' = [n \in 1..Len(in.cs) |-> <<>>]
    /\ aPhase' = "call"
    /\ cur' = [t \in Threads |-> 0]
    /\ idx' = [t \in Threads |-> 0]
    /\ storage' = <<>>
    /\ launched' = 0
    /\ callsLeft' = callsLeft - 1
    /\ prev' = Append(prev, [op |-> aOp, cs |-> constraint_set,
                             flag |-> project_hessian_to_psd,
                             result |-> aResult])
    /\ UNCHANGED <<aResult, shape_derivative, shape_i, otherVars>>

NextRepeat ==
    \/ AsmReturnEmpty
    \/ AsmStartParallel
    \/ \E t \in Threads : \E b \in DOMAIN aRanges : TakeChunk(t, b)
    \/ \E t \in Threads : ProcessConstraint(t)
    \/ Merge
    \/ NewCall

SpecRepeat == InitRepeat /\ [][NextRepeat]_vars

(***************************************************************************)
(* has_intersections (ipc.cpp, lines 368-423).  The broad phase and the    *)
(* exact predicates are collaborators: a candidate list is given as the    *)
(* answers the exact test gives for its candidates, in the order of the    *)
(* list.                                                                   *)
(***************************************************************************)
\* The longest candidate list.
MaxHi == 3

AnswerLists == UNION { [1..n -> BOOLEAN] : n \in 0..MaxHi }

ColsSamples == {1, 2, 3}

InitIntersections ==
    /\ IdleReducer
    /\ IdleAssembler
    /\ IdleWrappers
    /\ IdleFunctions
    /\ V_cols \in ColsSamples
    /\ ee_candidates \in AnswerLists
    /\ ef_candidates \in AnswerLists
    /\ hiPhase = "call"
    /\ hi_i = 0
    /\ hiTested = <<>>
    /\ hiResult = <<"none">>

hiOther == <<reducerVars, sIn, sOut, asmVars, wrapVars, fnVars>>

\* Lines 386-393 and 403-408: the candidates of the dimension are detected.
HiDetect ==
    /\ hiPhase = "call"
    /\ IF V_cols = 2
       THEN hiPhase' = "ee_loop" /\ hi_i' = 1
       ELSE IF V_cols = 3
            THEN hiPhase' = "ef_loop" /\ hi_i' = 1
            ELSE hiPhase' = "assert_failed" /\ hi_i' = hi_i
    /\ UNCHANGED <<V_cols, ee_candidates, ef_candidates, hiTested, hiResult,
                   hiOther>>

HiTestEE_continue == /\ hiPhase = "ee_loop" /\ hi_i <= Len(ee_candidates) /\ hiTested' = Append(hiTested, <<"ee", hi_i>>) /\ hi_i' = hi_i + 1 /\ UNCHANGED <<V_cols, ee_candidates, ef_candidates, hiPhase, hiResult, hiOther>>

\* Lines 394-402: segment_segment_intersect on the next edge-edge candidate.
HiTestEE ==
    /\ hiPhase = "ee_loop"
    /\ hi_i <= Len(ee_candidates)
    /\ hiTested' = Append(hiTested, <<"ee", hi_i>>)
    /\ IF ee_candidates[hi_i]
       THEN hiResult' = TRUE /\ hiPhase' = "returned" /\ hi_i' = hi_i
       ELSE hi_i' = hi_i + 1 /\ UNCHANGED <<hiResult, hiPhase>>
    /\ UNCHANGED <<V_cols, ee_candidates, ef_candidates, hiOther>>

\* Lines 410-419: is_edge_intersecting_triangle on the next edge-face
\* candidate.
HiTestEF ==
    /\ hiPhase = "ef_loop"
    /\ hi_i <= Len(ef_candidates)
    /\ hiTested' = Append(hiTested, <<"ef", hi_i>>)
    /\ IF ef_candidates[hi_i]
       THEN hiResult' = TRUE /\ hiPhase' = "returned" /\ hi_i' = hi_i
       ELSE hi_i' = hi_i + 1 /\ UNCHANGED <<hiResult, hiPhase>>
    /\ UNCHANGED <<V_cols, ee_candidates, ef_candidates, hiOther>>

\* Line 422: the loop is over.
HiReturnFalse ==
    /\ \/ hiPhase = "ee_loop" /\ hi_i > Len(ee_candidates)
       \/ hiPhase = "ef_loop" /\ hi_i > Len(ef_candidates)
    /\ hiResult' = FALSE
    /\ hiPhase' = "returned"
    /\ UNCHANGED <<V_cols, ee_candidates, ef_candidates, hi_i, hiTested,
                   hiOther>>

NextIntersections ==
    \/ HiDetect
    \/ HiTestEE
    \/ HiTestEF
    \/ HiReturnFalse

SpecIntersections == InitIntersections /\ [][NextIntersections]_vars

(***************************************************************************)
(* The primitive-pair wrappers and point_edge_ccd called directly: their   *)
(* inputs, in both builds.                                                 *)
(***************************************************************************)
WrapTmax == {-1, 0, ONE \div 2, ONE, ONE + 1}

\* What inexact_point_edge_ccd_2D returns and writes to toi.
InexactOutcomes == [ret : BOOLEAN, toi : {0, ONE \div 2}]

NoInexact == [ret |-> FALSE, toi |-> 0]

AllThree == [k \in 1..6 |-> 3]

WrapperInputs ==
    { in \in [entry : WrapperNames \cup {"point_edge_ccd"}, correct : BOOLEAN,
              dims : [1..6 -> {2, 3}], p : ReducerPairs, toi : ToiSamples,
              tmax : WrapTmax, conservative_rescaling : {[num |-> 4, den |-> 5]},
              inexact : InexactOutcomes, ub : BOOLEAN] :
        /\ (in.entry # "point_edge_ccd") => (in.dims = AllThree)
        /\ (in.entry \in {"point_edge_ccd_2D", "point_edge_ccd"} /\ ~in.correct)
              \/ (in.inexact = NoInexact /\ in.ub = FALSE)
        /\ (in.entry = "point_edge_ccd")
              => (in.toi = Infinity /\ in.tmax \in {ONE, ONE + 1}) }

InitWrappers ==
    /\ IdleReducer
    /\ IdleAssembler
    /\ IdleIntersections
    /\ wIn \in WrapperInputs
    /\ wOut = <<>>
    /\ IdleFunctions

CallWrapper ==
    /\ wOut = <<>>
    /\ wIn # <<>>
    /\ wIn.entry \in WrapperNames
    /\ wOut' = IF wIn.entry = "point_edge_ccd_2D"
               THEN point_edge_ccd_2D(wIn.correct, wIn.p, wIn.toi, wIn.tmax,
                                      wIn.conservative_rescaling, wIn.inexact,
                                      wIn.ub)
               ELSE wrapper_ccd(wIn.entry, wIn.correct, wIn.p, wIn.toi,
                                wIn.tmax, wIn.conservative_rescaling)
    /\ UNCHANGED <<wIn, reducerVars, sIn, sOut, asmVars, hiVars, fnVars>>

CallPointEdge ==
    /\ wOut = <<>>
    /\ wIn # <<>>
    /\ wIn.entry = "point_edge_ccd"
    /\ wOut' = point_edge_ccd(wIn.dims, wIn.correct, wIn.p, wIn.toi, wIn.tmax,
                              wIn.conservative_rescaling, wIn.inexact, wIn.ub)
    /\ UNCHANGED <<wIn, reducerVars, sIn, sOut, asmVars, hiVars, fnVars>>

NextWrappers ==
    \/ CallWrapper
    \/ CallPointEdge

SpecWrappers == InitWrappers /\ [][NextWrappers]_vars

(***************************************************************************)
(* line_line_distance (line_line.hpp, lines 8-27), over points with        *)
(* coordinates 0 and 1.  Sums and products of such coordinates are exact   *)
(* in double; a quotient is kept as its numerator and denominator, and a   *)
(* division by zero gives what IEEE 754 gives: NaN for 0/0, an infinity    *)
(* otherwise.                                                              *)
(***************************************************************************)
Points == {0, 1} \X {0, 1} \X {0, 1}

Minus(a, b) == <<a[1] - b[1], a[2] - b[2], a[3] - b[3]>>

cross(a, b) ==
    <<a[2] * b[3] - a[3] * b[2],
      a[3] * b[1] - a[1] * b[3],
      a[1] * b[2] - a[2] * b[1]>>

dot(a, b) == a[1] * b[1] + a[2] * b[2] + a[3] * b[3]

squaredNorm(a) == dot(a, a)

\* operator/ of double
Divide(a, b) ==
    IF b # 0 THEN [kind |-> "finite", num |-> a, den |-> b]
    ELSE IF a = 0 THEN [kind |-> "nan", num |-> 0, den |-> 0]
    ELSE [kind |-> "inf", num |-> a, den |-> 0]

line_line_distance(ea0, ea1, eb0, eb1) ==
    LET normal == cross(Minus(ea1, ea0), Minus(eb1, eb0))
        line_to_line == dot(Minus(eb0, ea0), normal)
    IN  Divide(line_to_line * line_to_line, squaredNorm(normal))

InitLineLine ==
    /\ IdleReducer
    /\ IdleAssembler
    /\ IdleIntersections
    /\ IdleWrappers
    /\ llIn \in [ea0 : Points, ea1 : Points, eb0 : Points, eb1 : Points]
    /\ llOut = <<>>
    /\ stepFree = <<>>

CallLineLine ==
    /\ llIn # <<>>
    /\ llOut = <<>>
    /\ llOut' = line_line_distance(llIn.ea0, llIn.ea1, llIn.eb0, llIn.eb1)
    /\ UNCHANGED <<llIn, stepFree, reducerVars, sIn, sOut, asmVars, hiVars,
                   wrapVars>>

NextLineLine == CallLineLine

SpecLineLine == InitLineLine /\ [][NextLineLine]_vars

(***************************************************************************)
(* Properties of the reducer (under Spec).                                 *)
(***************************************************************************)

Min(S) == CHOOSE x \in S : \A y \in S : x <= y

\* The toi of every ccd call of the run that reported an impact.
ReportedImpacts == { c.toi : c \in { c \in calls : c.ret } }

\* The chunk whose range holds index k.
ChunkOf(k) == CHOOSE b \in DOMAIN ranges : b <= k /\ k < ranges[b]

\* The reported impacts whose locked compare-and-assign has been done.
AppliedImpacts ==
    { c.toi : c \in { c \in calls : c.ret /\ i[ChunkOf(c.i)] > c.i } }

\* C1: for a non-empty candidate set the value returned is the minimum of 1
\* and every toi a ccd call of the run reported as an impact; at every moment
\* of the parallel loop the shared bound is the minimum of 1 and the reported
\* impacts already compared under the mutex, and every value written to it is
\* a reported impact (a call reporting no impact writes nothing).
C1_ReturnsMinOfReported ==
    /\ (phase = "returned" /\ Len(candidates) > 0)
          => result = Min({ONE} \cup ReportedImpacts)
    /\ (phase = "parallel")
          => /\ earliest_toi = Min({ONE} \cup AppliedImpacts)
             /\ \A k \in 1..Len(writes) : writes[k] \in ReportedImpacts

\* C1 witness: two candidates reported different impacts below 1, the larger
\* one was compared after the smaller one was written and did not replace it.
C1_Witness ==
    /\ phase = "returned"
    /\ Len(writes) = 1
    /\ \E c1 \in calls, c2 \in calls :
          /\ c1.ret /\ c2.ret
          /\ c1.toi < c2.toi /\ c2.toi < ONE
          /\ result = c1.toi

\* What candidate k reports when tested alone with tmax = 1.
Alone(k) == candidate_ccd(candidates[k], Infinity, ONE, conservative_rescaling)

AloneImpacts ==
    { Alone(k).toi : k \in { k \in 1..Len(candidates) : Alone(k).ret } }

\* C2: the value returned is the same under every schedule and partition and
\* equals the minimum over the candidates of the toi each reports when tested
\* alone with tmax = 1.
C2_SameAsAlone ==
    (phase = "returned") => result = Min({ONE} \cup AloneImpacts)

\* C3: the value returned lies in [0, 1] and the assert of line 320 holds.
C3_ResultInUnitInterval ==
    (phase = "returned")
       => (result >= 0 /\ result <= ONE /\ final_assert)

\* C3 witness: a run in which a ccd call reported an impact with toi left at
\* infinity, and the call has returned.
C3_Witness ==
    /\ phase = "returned"
    /\ \E c \in calls : c.ret /\ c.toi = Infinity

\* C4: with an empty candidate set the call returns exactly 1, no ccd call is
\* made and the parallel loop is not started (line 285 is never reached, no
\* chunk exists, nothing is written to the bound).
C4_EmptyReturnsOne ==
    (phase = "returned" /\ Len(candidates) = 0)
       => /\ result = ONE
          /\ calls = {}
          /\ earliest_toi = Infinity
          /\ DOMAIN pc = {}
          /\ writes = <<>>

\* C4 witness: the call with no candidates has returned.
C4_Witness == phase = "returned" /\ Len(candidates) = 0 /\ result = ONE

\* C5 as stated: the value returned is 1 if and only if the candidate set is
\* empty.
C5_OneIffEmpty ==
    (phase = "returned") => (result = ONE <=> Len(candidates) = 0)

\* C5 amended: an empty candidate set returns 1, and a call returns a value
\* strictly below 1 exactly when some ccd call of the run reported an impact
\* with toi < 1.
C5_OneUnlessImpactBelowOne ==
    (phase = "returned")
       => /\ (Len(candidates) = 0) => (result = ONE)
          /\ result <= ONE
          /\ (result < ONE) <=> (\E c \in calls : c.ret /\ c.toi < ONE)

\* C5 witness: a non-empty candidate set for which the call returned 1.
C5_Witness ==
    phase = "returned" /\ Len(candidates) > 0 /\ result = ONE

(***************************************************************************)
(* Properties of ccd_strategy (under SpecStrategy).                        *)
(***************************************************************************)
Called == sOut # <<>>

\* C6: with initial_distance = 0 the call sets toi = 0 and returns true
\* without any oracle query, and no assert fails.
C6_ZeroDistance ==
    (Called /\ sIn.p.d0 = 0)
       => /\ sOut.ret
          /\ sOut.toi = 0
          /\ sOut.queries = <<>>
          /\ sOut.assert_min /\ sOut.assert_toi

\* C6 witness: a call with initial_distance = 0 and tmax > 0 has returned.
C6_Witness == Called /\ sIn.p.d0 = 0 /\ sIn.tmax > 0 /\ sOut.ret

\* C7: with initial_distance > 0 the first query has min_distance =
\* (1 - r) * initial_distance and no_zero_toi = false, and
\* min_distance < initial_distance (the assert of line 37 holds).
C7_FirstQueryMargin ==
    (Called /\ sIn.p.d0 > 0)
       => LET r == sIn.conservative_rescaling
              q == sOut.queries
          IN  /\ Len(q) >= 1
              /\ q[1].min_distance = MulFrac(sIn.p.d0, r.den - r.num, r.den)
              /\ ~ q[1].no_zero_toi
              /\ q[1].min_distance < sIn.p.d0
              /\ sOut.assert_min

\* C8: a second query is made exactly when the first reports an impact with
\* toi < SMALL_TOI; it has min_distance = 0 and no_zero_toi = true, and when
\* it reports an impact the toi returned is r times its toi; otherwise the
\* first query's result is returned unchanged.
C8_SecondQuery ==
    Called
       => LET r == sIn.conservative_rescaling
              q == sOut.queries
          IN  /\ Len(q) <= 2
              /\ (sIn.p.d0 > 0) => (Len(q) >= 1)
              /\ (Len(q) = 2) <=>
                     (Len(q) >= 1 /\ q[1].impact /\ q[1].toi < SMALL_TOI)
              /\ (Len(q) = 2)
                    => /\ q[2].min_distance = 0
                       /\ q[2].no_zero_toi
                       /\ q[2].impact
                             => sOut.toi = MulFrac(q[2].toi, r.num, r.den)
              /\ (Len(q) = 1)
                    => (sOut.ret = q[1].impact /\ sOut.toi = q[1].toi)

\* C8 witness: the second query reported an impact and the toi returned is
\* its toi rescaled.
C8_Witness ==
    /\ Called
    /\ Len(sOut.queries) = 2
    /\ sOut.queries[2].impact
    /\ sOut.queries[2].toi = (6 * ONE) \div 10
    /\ sOut.toi < sOut.queries[2].toi

\* C9: when the call returns true, the toi it outputs is 0 (zero initial
\* distance), the toi of an impacting first query that was its last query, or
\* r times the toi of an impacting second query.
C9_ImpactHasProducedToi ==
    (Called /\ sOut.ret)
       => LET r == sIn.conservative_rescaling
              q == sOut.queries
          IN  \/ (sIn.p.d0 = 0 /\ sOut.toi = 0)
              \/ (Len(q) = 1 /\ q[1].impact /\ sOut.toi = q[1].toi)
              \/ (Len(q) = 2 /\ q[2].impact
                    /\ sOut.toi = MulFrac(q[2].toi, r.num, r.den))

\* The root-finder is exact for the pair: it reports time 0 for a separation
\* only when the pair starts within it.
ExactPair(p) == (p.d0 > 0) => (p.tMargin > 0)

\* C10: when the call reports an impact for a pair whose distance first
\* reaches zero at t*, the toi returned is at most t*, and strictly below t*
\* when initial_distance > 0.
C10_ToiBeforeZero ==
    (Called /\ sOut.ret /\ ExactPair(sIn.p) /\ sIn.p.tZero # Infinity)
       => /\ sOut.toi <= sIn.p.tZero
          /\ (sIn.p.d0 > 0) => (sOut.toi < sIn.p.tZero)


\* C11: with initial_distance > 0 the call never reports an impact with toi
\* exactly 0: a first-query toi below SMALL_TOI is replaced by r times a
\* strictly positive second-query toi, and the assert of line 46 holds.
C11_NoZeroToi ==
    (Called /\ sIn.p.d0 > 0 /\ sOut.ret)
       => LET r == sIn.conservative_rescaling
              q == sOut.queries
          IN  /\ sOut.toi # 0
              /\ sOut.assert_toi
              /\ (q[1].toi < SMALL_TOI)
                    => /\ Len(q) = 2
                       /\ q[2].impact
                       /\ q[2].toi > 0
                       /\ sOut.toi = MulFrac(q[2].toi, r.num, r.den)

\* C22: no worker holds earliest_toi_mutex across a ccd call: the holder is a
\* worker whose ccd call on its current candidate has returned an impact and
\* that has not gone on to its next candidate; a worker about to call ccd, or
\* done, does not hold it, and it is free when the function returns.
C22_NoLockAcrossCcd ==
    /\ (phase = "parallel")
          => /\ earliest_toi_mutex \in {0} \cup DOMAIN ranges
             /\ \A b \in DOMAIN ranges :
                   /\ (earliest_toi_mutex = b)
                         => /\ pc[b] = "update"
                            /\ \E c \in calls : c.i = i[b] /\ c.ret
                   /\ (pc[b] \in {"ccd", "lock", "done"})
                         => (earliest_toi_mutex # b)
    /\ (phase = "returned") => (earliest_toi_mutex = 0)

C22_Witness ==
    /\ phase = "parallel"
    /\ \E b \in DOMAIN ranges : \E b2 \in DOMAIN ranges :
          /\ earliest_toi_mutex = b
          /\ pc[b] = "update"
          /\ b2 # b
          /\ pc[b2] = "ccd"

\* The values of a sequence.
Range(s) == { s[n] : n \in DOMAIN s }

\* C23: earliest_toi starts at 1 and every write replaces it with a strictly
\* smaller value: the values it takes are strictly decreasing.
C23_BoundDecreases ==
    (phase \in {"parallel", "returned"} /\ Len(candidates) > 0)
        => /\ earliest_toi = IF writes = <<>> THEN ONE ELSE writes[Len(writes)]
           /\ \A n \in DOMAIN writes :
                 writes[n] < (IF n = 1 THEN ONE ELSE writes[n - 1])

C23_Witness ==
    /\ phase = "returned"
    /\ Len(writes) = 2
    /\ writes[2] < writes[1]
    /\ writes[1] < ONE
    /\ result = writes[2]

\* C24: every ccd call of the reducer gets as tmax a value the shared bound
\* has taken (1 or a value written to it), which lies in [0, 1], so the assert
\* on tmax of the wrapper holds in every call.
C24_TmaxInUnitInterval ==
    \A c \in calls :
        /\ c.tmax \in {ONE} \cup Range(writes)
        /\ c.tmax >= 0
        /\ c.tmax <= ONE
        /\ c.assert_tmax

C24_Witness ==
    /\ phase = "returned"
    /\ \E k \in DOMAIN candidates : candidates[k].d0 = 0
    /\ 0 \in Range(writes)
    /\ \E c \in calls : c.tmax = 0 /\ c.assert_tmax

\* C26 (under SpecFair): the call returns; when it has, every range has run
\* its loop to its end, so every candidate was tested once, by the worker of
\* its range, each test making at most two oracle queries; and a worker that
\* waits for the mutex gets it.
C26_Terminates ==
    /\ <>(phase = "returned")
    /\ [](phase = "returned"
            => /\ \A b \in DOMAIN ranges : i[b] = ranges[b]
               /\ \A k \in DOMAIN candidates :
                     Cardinality({ c \in calls : c.i = k }) = 1
               /\ \A c \in calls : c.nq <= 2)
    /\ \A b \in 1..MaxCand :
          (b \in DOMAIN pc /\ pc[b] = "lock")
             ~> (b \in DOMAIN pc /\ pc[b] = "update")

C26_Witness ==
    /\ phase = "returned"
    /\ Len(candidates) = MaxCand
    /\ Cardinality(DOMAIN ranges) = MaxCand
    /\ Len(writes) >= 1
    /\ \E c \in calls : c.nq = 2

\* A candidate's ccd call alone with tmax = 1 reports a collision.
CollidesAlone(k) ==
    candidate_ccd(candidates[k], Infinity, ONE, conservative_rescaling).ret

\* C27: is_step_collision_free returns true exactly when no candidate's ccd
\* call with tmax = 1 reports a collision, and it stops at the first
\* candidate that does (the candidates before it were tested, none after);
\* and when it has returned true, compute_collision_free_stepsize on the
\* same candidates and configurations returns exactly 1.
C27_StepFreeAgrees ==
    (stepFree # <<>>) =>
        /\ stepFree.ret = (\A k \in DOMAIN candidates : ~CollidesAlone(k))
        /\ stepFree.ret => stepFree.tested = Len(candidates)
        /\ ~stepFree.ret =>
              /\ stepFree.tested \in DOMAIN candidates
              /\ CollidesAlone(stepFree.tested)
              /\ \A k \in 1..(stepFree.tested - 1) : ~CollidesAlone(k)
        /\ (phase = "returned" /\ stepFree.ret) => result = ONE

\* is_step_collision_free has returned true for MaxCand candidates, and the
\* reducer has tested them and returned.
C27_Witness ==
    /\ stepFree # <<>>
    /\ stepFree.ret
    /\ Len(candidates) = MaxCand
    /\ phase = "returned"
    /\ calls # {}

(***************************************************************************)
(* Properties of the assemblers (under SpecAssembler).  The reference      *)
(* values are the single-threaded sums, written from the local entries     *)
(* (constraint n, local vertex j, coordinate e) without the scatter        *)
(* helpers and without threads.                                            *)
(***************************************************************************)
RefPotential(cs) ==
    SumFn([n \in DOMAIN cs |-> cs[n].weight * cs[n].k], DOMAIN cs)

\* The local entries of the constraints of cs.
LocalEntries(cs) ==
    { nje \in (DOMAIN cs) \X (1..3) \X (0..(Dim - 1)) :
        nje[2] <= Len(cs[nje[1]].vids) }

\* The global degree of freedom of a local entry and its local position.
EntryDof(cs, x) == cs[x[1]].vids[x[2]] * Dim + x[3]

EntryPos(x) == (x[2] - 1) * Dim + x[3]

RefGradient(cs) ==
    [d \in 0..(NumVertices * Dim - 1) |->
        SumFn([x \in LocalEntries(cs) |->
                  compute_potential_gradient(cs[x[1]])[EntryPos(x)]],
              { x \in LocalEntries(cs) : EntryDof(cs, x) = d })]

RefHessian(cs, flag) ==
    [rc \in (0..(NumVertices * Dim - 1)) \X (0..(NumVertices * Dim - 1)) |->
        LET pairs == { xy \in LocalEntries(cs) \X LocalEntries(cs) :
                         /\ xy[1][1] = xy[2][1]
                         /\ EntryDof(cs, xy[1]) = rc[1]
                         /\ EntryDof(cs, xy[2]) = rc[2] }
        IN  SumFn([xy \in pairs |->
                      compute_potential_hessian(cs[xy[1][1]], flag)
                          [<<EntryPos(xy[1]), EntryPos(xy[2])>>]],
                  pairs)]

\* Every constraint was evaluated once by the parallel loop.
EvaluatedOnce == \A n \in DOMAIN evals : Len(evals[n]) = 1

\* Two constraints were evaluated by two threads.
TwoThreads ==
    /\ Len(constraint_set) = 2
    /\ EvaluatedOnce
    /\ evals[1] # evals[2]

\* C12: compute_barrier_potential returns the sum of compute_potential over
\* the constraints, each evaluated exactly once, whatever the partition into
\* ranges and the assignment of ranges to threads.
C12_PotentialIsSum ==
    (aPhase = "returned" /\ aOp = "potential")
        => /\ aResult = RefPotential(constraint_set)
           /\ EvaluatedOnce

C12_Witness ==
    /\ aPhase = "returned"
    /\ aOp = "potential"
    /\ TwoThreads
    /\ aResult = 3

\* C13: compute_barrier_potential_gradient returns a vector of size
\* num_vertices * dim, the sum of the local gradients scattered to offsets
\* vertex_index * dim, each constraint contributing once, for every
\* partition.
C13_GradientIsScatterSum ==
    (aPhase = "returned" /\ aOp = "gradient")
        => /\ DOMAIN aResult = 0..(NumVertices * Dim - 1)
           /\ aResult = RefGradient(constraint_set)
           /\ EvaluatedOnce

C13_Witness ==
    /\ aPhase = "returned"
    /\ aOp = "gradient"
    /\ TwoThreads
    /\ constraint_set[1].vids = <<0, 1>>
    /\ constraint_set[2].vids = <<1, 2>>
    /\ aResult[Dim] # 0
    /\ aResult[Dim] = constraint_set[1].weight * constraint_set[1].k * (Dim + 1)
                        + constraint_set[2].weight * constraint_set[2].k

\* C14: compute_barrier_potential_hessian returns a square matrix of extent
\* num_vertices * dim whose entries are the sums of the values scattered to
\* them: duplicates in one thread's list and overlaps between threads are
\* added, so the result is the single-threaded scatter-sum for every
\* partition.
C14_HessianIsScatterSum ==
    (aPhase = "returned" /\ aOp = "hessian")
        => /\ DOMAIN aResult = (0..(NumVertices * Dim - 1))
                                 \X (0..(NumVertices * Dim - 1))
           /\ aResult = RefHessian(constraint_set, project_hessian_to_psd)
           /\ EvaluatedOnce

C14_Witness ==
    /\ aPhase = "returned"
    /\ aOp = "hessian"
    /\ TwoThreads
    /\ constraint_set[1].vids = <<0, 1>>
    /\ constraint_set[2].vids = <<1, 2>>
    /\ constraint_set[1].weight * constraint_set[1].k > 0
    /\ constraint_set[2].weight * constraint_set[2].k > 0
    /\ aResult[<<Dim, Dim>>]
         = constraint_set[1].weight * constraint_set[1].k * (Dim + 1) * (Dim + 1)
             + constraint_set[2].weight * constraint_set[2].k

\* C15: with an empty constraint set the potential is 0, the gradient the
\* zero vector of size num_vertices * dim and the Hessian the all-zero matrix
\* of that extent, and no parallel loop is started and no constraint
\* evaluated.
C15_EmptyShortcuts ==
    (aPhase = "returned" /\ Len(constraint_set) = 0 /\ aOp # "shape")
        => /\ (aOp = "potential") => (aResult = 0)
           /\ (aOp = "gradient")
                 => (aResult = [d \in 0..(NumVertices * Dim - 1) |-> 0])
           /\ (aOp = "hessian")
                 => (aResult = [rc \in (0..(NumVertices * Dim - 1))
                                         \X (0..(NumVertices * Dim - 1)) |-> 0])
           /\ launched = 0
           /\ DOMAIN storage = {}
           /\ DOMAIN evals = {}

C15_Witness ==
    /\ aPhase = "returned"
    /\ Len(constraint_set) = 0
    /\ aOp = "hessian"
    /\ launched = 0

\* What a first call of assembler op on (cs, flag) returns.
RefResult(op, cs, flag) ==
    CASE op = "potential" -> RefPotential(cs)
      [] op = "gradient" -> RefGradient(cs)
      [] OTHER -> RefHessian(cs, flag)

\* C16 (under SpecRepeat): after any earlier calls, a call returns what a
\* first call with its inputs returns, so it returns what every earlier call
\* with the same inputs returned; a call starts with no accumulator.
C16_NoStateBetweenCalls ==
    /\ (aPhase = "call") => (DOMAIN storage = {})
    /\ (aPhase = "returned")
          => /\ aResult = RefResult(aOp, constraint_set, project_hessian_to_psd)
             /\ \A n \in DOMAIN prev :
                   ( /\ prev[n].op = aOp
                     /\ prev[n].cs = constraint_set
                     /\ prev[n].flag = project_hessian_to_psd )
                      => (prev[n].result = aResult)

C16_Witness ==
    /\ aPhase = "returned"
    /\ Len(prev) = 1
    /\ prev[1].op = "potential"
    /\ aOp = "potential"
    /\ prev[1].cs = constraint_set
    /\ prev[1].result = 3
    /\ aResult = 3
    /\ TwoThreads

\* The threads whose loop position changes in the step.
Movers == { t \in Threads : idx'[t] # idx[t] \/ cur'[t] # cur[t] }

\* The locals created or changed in the step.
WrittenLocals ==
    { u \in DOMAIN storage' : u \notin DOMAIN storage \/ storage'[u] # storage[u] }

\* C25: during the parallel phase a step is one worker's, it changes no local
\* but that worker's own and changes neither the constraint set nor the
\* ranges; the locals are merged, by the calling thread, in a step taken when
\* every range is done and no worker is in a range.
C25_OwnAccumulatorOnly ==
    [][ /\ (aPhase = "parallel" /\ aPhase' = "parallel")
              => /\ constraint_set' = constraint_set
                 /\ aRanges' = aRanges
                 /\ \E t \in Threads : Movers = {t} /\ WrittenLocals \subseteq {t}
        /\ (aPhase = "parallel" /\ aPhase' # "parallel")
              => /\ \A b \in DOMAIN chunkState : chunkState[b] = "done"
                 /\ \A t \in Threads : cur[t] = 0
                 /\ constraint_set' = constraint_set
        /\ (aPhase # "parallel" /\ aPhase' # "parallel" /\ aPhase # "returned")
              => (storage' = storage)
      ]_vars

C25_Witness ==
    /\ aPhase = "parallel"
    /\ aOp = "hessian"
    /\ cur[1] = 0
    /\ cur[2] # 0
    /\ DOMAIN storage = {1, 2}
    /\ storage[1] # <<>>
    /\ storage[2] = <<>>

\* A constraint the shape derivative asserts against.
BadForShape(c) == c.weight = 0 \/ c.wg_size # NumVertices * Dim

\* The outer product of constraint c's scattered gradient, divided by its
\* weight, with its weight_gradient.
RefOuter(c) ==
    [rc \in (0..(NumVertices * Dim - 1)) \X (0..(NumVertices * Dim - 1)) |->
        (RefGradient(<<c>>)[rc[1]] \div c.weight) * (rc[2] + c.k)]

RefShapeDerivative(cs) ==
    [rc \in (0..(NumVertices * Dim - 1)) \X (0..(NumVertices * Dim - 1)) |->
        RefHessian(cs, FALSE)[rc]
          + SumFn([n \in DOMAIN cs |-> RefOuter(cs[n])[rc]], DOMAIN cs)]

\* C17: compute_barrier_shape_derivative returns the Hessian assembled
\* without projection plus the outer products of the constraints; a
\* constraint with weight 0 or a weight_gradient of another size than
\* num_vertices * dim makes the call fail an assertion and return nothing;
\* the empty set gives the all-zero matrix.
C17_ShapeDerivative ==
    /\ (aOp = "shape" /\ aPhase = "returned")
          => /\ \A n \in DOMAIN constraint_set : ~BadForShape(constraint_set[n])
             /\ aResult = RefShapeDerivative(constraint_set)
             /\ (Len(constraint_set) = 0)
                   => (aResult = [rc \in (0..(NumVertices * Dim - 1))
                                           \X (0..(NumVertices * Dim - 1)) |-> 0])
    /\ (aOp = "shape" /\ aPhase = "assert_failed")
          => /\ \E n \in DOMAIN constraint_set : BadForShape(constraint_set[n])
             /\ aResult = <<"none">>

C17_Witness ==
    /\ aOp = "shape"
    /\ aPhase = "returned"
    /\ Len(constraint_set) = 2
    /\ constraint_set[1].k < 0
    /\ aResult # RefHessian(constraint_set, FALSE)
    /\ aResult # RefHessian(constraint_set, TRUE)

(***************************************************************************)
(* Properties of has_intersections (under SpecIntersections).              *)
(***************************************************************************)
\* The candidates of the dimension and the name of their test.
HiCandidates == IF V_cols = 2 THEN ee_candidates ELSE ef_candidates

HiKind == IF V_cols = 2 THEN "ee" ELSE "ef"

\* C18: has_intersections returns true iff a candidate of the dimension
\* (edge-edge for 2 columns, edge-face for 3) passes its exact test; it
\* tests the candidates in order up to the first that passes and no later
\* one, and returns false only after all of them failed.
C18_FirstIntersection ==
    (hiPhase = "returned")
        => /\ V_cols \in {2, 3}
           /\ hiResult = (\E n \in DOMAIN HiCandidates : HiCandidates[n])
           /\ \A n \in DOMAIN hiTested : hiTested[n] = <<HiKind, n>>
           /\ hiResult
                 => /\ Len(hiTested) \in DOMAIN HiCandidates
                    /\ HiCandidates[Len(hiTested)]
                    /\ \A n \in 1..(Len(hiTested) - 1) : ~HiCandidates[n]
           /\ (~hiResult) => (Len(hiTested) = Len(HiCandidates))

C18_Witness ==
    /\ hiPhase = "returned"
    /\ V_cols = 2
    /\ ee_candidates = <<FALSE, TRUE, TRUE>>
    /\ ef_candidates = <<FALSE>>
    /\ hiResult = TRUE
    /\ hiTested = << <<"ee", 1>>, <<"ee", 2>> >>

(***************************************************************************)
(* Properties of the wrappers (under SpecWrappers).                        *)
(***************************************************************************)
\* The functions that evaluate a distance formula or a root-finder.
HeavyCalls == {"distance", "ccd_strategy", "inexact_point_edge_ccd_2D"}

\* C19: point_edge_ccd calls point_edge_ccd_2D when the first point has
\* dimension 2 and point_edge_ccd_3D when it has dimension 3; when another of
\* the six points has another dimension it fails an assertion before any
\* wrapper, distance formula or root-finder is entered.
C19_PointEdgeDispatch ==
    (wOut # <<>> /\ wIn.entry = "point_edge_ccd")
        => LET mismatch == \E k \in 2..6 : wIn.dims[k] # wIn.dims[1]
           IN  /\ mismatch
                     => /\ wOut.status = "assert_failed"
                        /\ wOut.trace = <<"point_edge_ccd">>
                        /\ wOut.strategy = <<>>
               /\ (~mismatch /\ wIn.dims[1] = 2)
                     => (wOut.trace[2] = "point_edge_ccd_2D")
               /\ (~mismatch /\ wIn.dims[1] = 3)
                     => (wOut.trace[2] = "point_edge_ccd_3D")
               /\ \A n \in DOMAIN wOut.trace :
                     (wOut.trace[n] \in HeavyCalls)
                        => (n > 2 /\ ~mismatch)

C19_Witness ==
    /\ wOut # <<>>
    /\ wIn.entry = "point_edge_ccd"
    /\ wIn.dims = <<2, 2, 2, 2, 2, 3>>
    /\ wOut.status = "assert_failed"
    /\ wOut.trace = <<"point_edge_ccd">>

\* C20: every wrapper, in both builds, checks tmax in [0,1], computes the
\* start-of-step distance and returns the flag and toi of ccd_strategy.
C20_WrappersWrapStrategy ==
    (wOut # <<>> /\ wIn.entry \in WrapperNames)
        => /\ (~(wIn.tmax >= 0 /\ wIn.tmax <= ONE))
                 => (wOut.status = "assert_failed")
           /\ (wOut.status = "returned")
                 => /\ wOut.trace = <<wIn.entry, "distance", "ccd_strategy">>
                    /\ wOut.strategy # <<>>
                    /\ wOut.ret = wOut.strategy.ret
                    /\ wOut.toi = wOut.strategy.toi

(***************************************************************************)
(* Properties of line_line_distance (under SpecLineLine).                  *)
(***************************************************************************)
\* C21: for two parallel lines (the cross product of the two directions is
\* the zero vector) line_line_distance returns zero.
C21_ParallelIsZero ==
    ( /\ llOut # <<>>
      /\ cross(Minus(llIn.ea1, llIn.ea0), Minus(llIn.eb1, llIn.eb0))
           = <<0, 0, 0>> )
        => (llOut.kind = "finite" /\ llOut.num = 0)

====
